---- MODULE Spec2Model ----
(***************************************************************************)
(* Model of usecases/web_api_testing/prompt_engineer.py: the PromptEngineer *)
(* class (prompt composition by strategy, submission to the completion     *)
(* endpoint, the in-memory prompt history) and the module-level            *)
(* openai.api_key it sets.                                                 *)
(*                                                                         *)
(* Python strings are sequences of one-character strings, Python lists     *)
(* live in a heap and are held by reference, so that two names bound to    *)
(* the same list see each other's appends.                                 *)
(***************************************************************************)
EXTENDS Integers, Sequences, FiniteSets, TLC

\* ---------------------------------------------------------------- bounds
\* Total number of get_response calls in a run.
MaxSubmits == 2

\* ---------------------------------------------------------------- values
NL == <<"\n">>

\* A Python value: a str, a reference to a list in the heap, or None.
StrV(t) == [kind |-> "str", ref |-> 0, text |-> t]
ListV(r) == [kind |-> "list", ref |-> r, text |-> <<>>]
NoneV == [kind |-> "None", ref |-> 0, text |-> <<>>]

\* The outcome of a call: a returned value or a raised exception.
Return(v) == [kind |-> "return", value |-> v, exc |-> "-"]
Raise(e) == [kind |-> "raise", value |-> NoneV, exc |-> e]

\* class PromptStrategy(Enum)
IN_CONTEXT == [cls |-> "PromptStrategy", value |-> 1]
CHAIN_OF_THOUGHT == [cls |-> "PromptStrategy", value |-> 2]
TREE_OF_THOUGHT == [cls |-> "PromptStrategy", value |-> 3]
PromptStrategy == {IN_CONTEXT, CHAIN_OF_THOUGHT, TREE_OF_THOUGHT}

\* Values a caller can pass as strategy that are no member of the enum:
\* None and the plain integer 1 (an Enum member is not equal to its value).
UnmappedStrategies == {[cls |-> "NoneType", value |-> 0], [cls |-> "int", value |-> 1]}
StrategyValues == PromptStrategy \cup UnmappedStrategies

\* ------------------------------------------------------- string helpers
\* str.join
RECURSIVE Join(_, _)
Join(sep, items) ==
    IF items = <<>> THEN <<>>
    ELSE IF Len(items) = 1 THEN items[1]
    ELSE items[1] \o sep \o Join(sep, Tail(items))

\* The characters str.strip() removes among those the model's texts use.
Whitespace == {" ", "\n", "\t"}

RECURSIVE LStrip(_)
LStrip(s) == IF s # <<>> /\ s[1] \in Whitespace THEN LStrip(Tail(s)) ELSE s

RECURSIVE RStrip(_)
RStrip(s) ==
    IF s # <<>> /\ s[Len(s)] \in Whitespace THEN RStrip(SubSeq(s, 1, Len(s) - 1)) ELSE s

\* str.strip()
Strip(s) == RStrip(LStrip(s))

\* str(v), as an f-string field formats a value
NoneText == <<"N", "o", "n", "e">>
PyStr(v) == IF v.kind = "None" THEN NoneText ELSE v.text

UserTag == <<"[", "U", "s", "e", "r", "]", ":", " ">>
SystemTag == <<"[", "S", "y", "s", "t", "e", "m", "]", ":", " ">>

\* f"[User]: {prompt}"
UserLine(prompt) == UserTag \o PyStr(prompt)
\* f"[System]: {response_text}"
SystemLine(response_text) == SystemTag \o response_text

\* ------------------------------------------------------ strategy texts
chain_of_thought_steps ==
    << <<"L", "e", "t", "'", "s", " ", "t", "h", "i", "n", "k", " ", "s", "t", "e", "p", " ",
         "b", "y", " ", "s", "t", "e", "p", ".">> >>

tot1 == <<"I", "m", "a", "g", "i", "n", "e", " ", "t", "h", "r", "e", "e", " ", "d", "i", "f", "f", "e", "r", "e", "n", "t", " ", "e", "x", "p", "e", "r", "t", "s", " ", "a", "r", "e", " ", "a", "n", "s", "w", "e", "r", "i", "n", "g", " ", "t", "h", "i", "s", " ", "q", "u", "e", "s", "t", "i", "o", "n", ".", "\n">>
tot2 == <<"A", "l", "l", " ", "e", "x", "p", "e", "r", "t", "s", " ", "w", "i", "l", "l", " ", "w", "r", "i", "t", "e", " ", "d", "o", "w", "n", " ", "o", "n", "e", " ", "s", "t", "e", "p", " ", "o", "f", " ", "t", "h", "e", "i", "r", " ", "t", "h", "i", "n", "k", "i", "n", "g", ",", "\n">>
tot3 == <<"t", "h", "e", "n", " ", "s", "h", "a", "r", "e", " ", "i", "t", " ", "w", "i", "t", "h", " ", "t", "h", "e", " ", "g", "r", "o", "u", "p", ".", "\n">>
tot4 == <<"A", "f", "t", "e", "r", " ", "t", "h", "a", "t", ",", " ", "a", "l", "l", " ", "e", "x", "p", "e", "r", "t", "s", " ", "w", "i", "l", "l", " ", "p", "r", "o", "c", "e", "e", "d", " ", "t", "o", " ", "t", "h", "e", " ", "n", "e", "x", "t", " ", "s", "t", "e", "p", ",", " ", "a", "n", "d", " ", "s", "o", " ", "o", "n", ".", "\n">>
tot5 == <<"I", "f", " ", "a", "n", "y", " ", "e", "x", "p", "e", "r", "t", " ", "r", "e", "a", "l", "i", "z", "e", "s", " ", "t", "h", "e", "y", "'", "r", "e", " ", "w", "r", "o", "n", "g", " ", "a", "t", " ", "a", "n", "y", " ", "p", "o", "i", "n", "t", ",", " ", "t", "h", "e", "y", " ", "w", "i", "l", "l", " ", "l", "e", "a", "v", "e", ".", "\n">>
tot6 == <<"T", "h", "e", " ", "q", "u", "e", "s", "t", "i", "o", "n", " ", "i", "s", ":", " ">>

\* The one element of the list: the adjacent literals, concatenated.
tree_of_thoughts_steps == << tot1 \o tot2 \o tot3 \o tot4 \o tot5 \o tot6 >>

\* ------------------------------------------------------------- formatters
\* Variant: the current prompt placed before the history.
in_context_learning_prompt_first(self, heap) ==
    IF self.prompt.kind # "str" THEN Raise("TypeError")
    ELSE Return(StrV(Join(NL, <<self.prompt.text>> \o heap[self.prompt_history])))

\* "\n".join(items) where the last item is self.prompt: join raises
\* TypeError on an item that is not a str.
in_context_learning(self, heap) ==
    IF self.prompt.kind # "str" THEN Raise("TypeError")
    ELSE Return(StrV(Join(NL, heap[self.prompt_history] \o <<self.prompt.text>>)))

\* Variant: the history woven into the chain-of-thought prompt.
chain_of_thought_with_history(self, heap) ==
    IF self.prompt.kind # "str" THEN Raise("TypeError")
    ELSE Return(StrV(Join(NL, heap[self.prompt_history] \o <<self.prompt.text>>
                                  \o chain_of_thought_steps)))

chain_of_thought(self, heap) ==
    IF self.prompt.kind # "str" THEN Raise("TypeError")
    ELSE Return(StrV(Join(NL, <<self.prompt.text>> \o chain_of_thought_steps)))

tree_of_thought(self, heap) ==
    IF self.prompt.kind # "str" THEN Raise("TypeError")
    ELSE Return(StrV(Join(NL, <<self.prompt.text>> \o tree_of_thoughts_steps)))

\* Calling a bound method stored in self.strategies.
CallMethod(name, self, heap) ==
    CASE name = "in_context_learning" -> in_context_learning(self, heap)
      [] name = "chain_of_thought" -> chain_of_thought(self, heap)
      [] name = "tree_of_thought" -> tree_of_thought(self, heap)

\* ------------------------------------------------------------- __init__
\* self.strategies = {...}
StrategyMap ==
    [s \in PromptStrategy |->
        CASE s = IN_CONTEXT -> "in_context_learning"
          [] s = CHAIN_OF_THOUGHT -> "chain_of_thought"
          [] s = TREE_OF_THOUGHT -> "tree_of_thought"]

\* Variant: the credential is set by the first construction only.
SetApiKey_once(current, api_key) == IF current = "unset" THEN api_key ELSE current

\* openai.api_key = self.api_key
SetApiKey(current, api_key) == api_key

\* The list self.prompt_history is bound to: the caller's list when a
\* history is supplied, a new empty list (at reference fresh) otherwise.
InitPromptHistory(history, fresh) == IF history.kind # "None" THEN history.ref ELSE fresh

\* Variant: the current prompt starts as an empty text of its own.
InitPrompt_empty(prompt_history) == StrV(<<>>)

\* self.prompt = self.prompt_history
InitPrompt(prompt_history) == ListV(prompt_history)

NotConstructed ==
    [constructed |-> FALSE, strategy |-> [cls |-> "NoneType", value |-> 0], api_key |-> "-",
     prompt_history |-> 0, initial_prompt |-> "unset", prompt |-> NoneV,
     strategies |-> <<>>]

\* generate_initial_prompt returns None; the attribute is assigned only
\* when no history is supplied.
generate_initial_prompt == "None"

PromptEngineer(strategy, api_key, history, fresh) ==
    [constructed |-> TRUE,
     strategy |-> strategy,
     api_key |-> api_key,
     prompt_history |-> InitPromptHistory(history, fresh),
     initial_prompt |-> IF history.kind # "None" THEN "unset" ELSE generate_initial_prompt,
     prompt |-> InitPrompt(InitPromptHistory(history, fresh)),
     strategies |-> StrategyMap]

\* ------------------------------------------------------ generate_prompt
\* Variant: an unmapped strategy falls back to the in-context formatter.
prompt_func_default(self) ==
    IF self.strategy \in DOMAIN self.strategies THEN self.strategies[self.strategy]
    ELSE "in_context_learning"

\* self.strategies.get(self.strategy)
prompt_func(self) ==
    IF self.strategy \in DOMAIN self.strategies THEN self.strategies[self.strategy] ELSE "None"

\* Variant: an unmapped strategy is replaced by IN_CONTEXT for later calls.
generate_prompt_resets_strategy(self, heap) ==
    [self |-> IF prompt_func(self) # "None" THEN self ELSE [self EXCEPT !.strategy = IN_CONTEXT],
     formatter |-> prompt_func(self),
     result |-> IF prompt_func(self) # "None"
                THEN CallMethod(prompt_func(self), self, heap)
                ELSE Return(NoneV)]

generate_prompt(self, heap) ==
    [self |-> self,
     formatter |-> prompt_func(self),
     result |-> IF prompt_func(self) # "None"
                THEN CallMethod(prompt_func(self), self, heap)
                ELSE Return(NoneV)]

\* --------------------------------------------------------- get_response
\* What openai.Completion.create does: it raises, or returns a response
\* whose choices carry a text.
ApiRaise(e) == [kind |-> "raise", exc |-> e, choices |-> <<>>]
ApiResponse(choices) == [kind |-> "response", exc |-> "-", choices |-> choices]

\* Variant: the system line is logged before the user line.
get_response_swapped(self, hist, prompt, api) ==
    IF api.kind = "raise"
    THEN [self |-> self, history |-> hist, calls |-> 1, result |-> Raise(api.exc)]
    ELSE IF api.choices = <<>>
    THEN [self |-> self, history |-> hist, calls |-> 1, result |-> Raise("IndexError")]
    ELSE LET response_text == Strip(api.choices[1])
         IN [self |-> self,
             history |-> hist \o <<SystemLine(response_text), UserLine(prompt)>>,
             calls |-> 1,
             result |-> Return(StrV(response_text))]

\* Variant: the user line is logged before the endpoint is called, so it
\* stays in the history when the call fails.
get_response_logs_first(self, hist, prompt, api) ==
    IF api.kind = "raise"
    THEN [self |-> self, history |-> hist \o <<UserLine(prompt)>>, calls |-> 1,
          result |-> Raise(api.exc)]
    ELSE IF api.choices = <<>>
    THEN [self |-> self, history |-> hist \o <<UserLine(prompt)>>, calls |-> 1,
          result |-> Raise("IndexError")]
    ELSE LET response_text == Strip(api.choices[1])
         IN [self |-> self,
             history |-> hist \o <<UserLine(prompt), SystemLine(response_text)>>,
             calls |-> 1,
             result |-> Return(StrV(response_text))]

\* Variant: the history is assigned the new exchange instead of extended.
get_response_replaces(self, hist, prompt, api) ==
    IF api.kind = "raise"
    THEN [self |-> self, history |-> hist, calls |-> 1, result |-> Raise(api.exc)]
    ELSE IF api.choices = <<>>
    THEN [self |-> self, history |-> hist, calls |-> 1, result |-> Raise("IndexError")]
    ELSE LET response_text == Strip(api.choices[1])
         IN [self |-> self,
             history |-> <<UserLine(prompt), SystemLine(response_text)>>,
             calls |-> 1,
             result |-> Return(StrV(response_text))]

\* hist is the list self.prompt_history refers to; the result carries the
\* list afterwards, the number of calls made to the endpoint and the outcome.
get_response(self, hist, prompt, api) ==
    IF api.kind = "raise"
    THEN [self |-> self, history |-> hist, calls |-> 1, result |-> Raise(api.exc)]
    ELSE IF api.choices = <<>>
    THEN [self |-> self, history |-> hist, calls |-> 1, result |-> Raise("IndexError")]
    ELSE LET response_text == Strip(api.choices[1])
         IN [self |-> self,
             history |-> hist \o <<UserLine(prompt), SystemLine(response_text)>>,
             calls |-> 1,
             result |-> Return(StrV(response_text))]

\* ================================================================ state
\* The names the caller binds composers to.
Composers == {"a", "b"}

\* The API keys, prompt fragments and completion texts the caller and the
\* endpoint supply.
Keys == {"k1", "k2"}
PromptTexts == {<<"Q">>, <<"R", " ">>}
ResponseTexts == {<<"A">>, <<" ", "B", "\n">>}
InitialHistories == {<<>>, <<UserTag \o <<"h">>, SystemTag \o <<"i">>>>}

ApiOutcomes ==
    {ApiRaise("APIConnectionError"), ApiRaise("AuthenticationError"), ApiResponse(<<>>)}
        \cup {ApiResponse(<<t>>) : t \in ResponseTexts}

\* The heap reference of the list the caller owns and may pass as history.
CallerHistory == 1

VARIABLES
    composers,        \* composer name -> the object's attributes
    heap,             \* reference -> the list's items
    openai_api_key,   \* the module attribute openai.api_key
    last,             \* the last call: operation, receiver, argument, outcome
    old_heap,         \* the heap before the last call
    submits,          \* number of get_response calls so far
    order,            \* the composers, in order of construction
    at_construction,  \* composer -> what its constructor set
    assigned,         \* the composers whose prompt the caller has assigned
    own_pairs,        \* composer -> the lines its own successful submits logged
    foreign           \* composer -> submits on other composers since construction

vars == <<composers, heap, openai_api_key, last, old_heap, submits, order,
          at_construction, assigned, own_pairs, foreign>>

NoCall ==
    [op |-> "-", self |-> "-", arg |-> NoneV, result |-> Return(NoneV),
     formatter |-> "-", api |-> ApiRaise("-"), calls |-> 0, used_key |-> "-"]

\* The prompt history of composer c, now and before the last call.
Transcript(c) == heap[composers[c].prompt_history]
OldTranscript(c) == old_heap[composers[c].prompt_history]

Init ==
    /\ composers = [c \in Composers |-> NotConstructed]
    /\ \E h \in InitialHistories : heap = <<h>>
    /\ openai_api_key = "unset"
    /\ last = NoCall
    /\ old_heap = heap
    /\ submits = 0
    /\ order = <<>>
    /\ at_construction = [c \in Composers |-> [self |-> NotConstructed, history |-> <<>>]]
    /\ assigned = {}
    /\ own_pairs = [c \in Composers |-> <<>>]
    /\ foreign = [c \in Composers |-> 0]

\* c = PromptEngineer(strategy, api_key, history)
Construct(c, strategy, api_key, history) ==
    /\ ~composers[c].constructed
    /\ LET fresh == Len(heap) + 1
           obj == PromptEngineer(strategy, api_key, history, fresh)
           heap2 == IF obj.prompt_history = fresh THEN Append(heap, <<>>) ELSE heap
       IN /\ composers' = [composers EXCEPT ![c] = obj]
          /\ heap' = heap2
          /\ at_construction' =
                [at_construction EXCEPT ![c] = [self |-> obj, history |-> heap2[obj.prompt_history]]]
    /\ openai_api_key' = SetApiKey(openai_api_key, api_key)
    /\ old_heap' = heap
    /\ order' = Append(order, c)
    /\ last' = [NoCall EXCEPT !.op = "__init__", !.self = c]
    /\ UNCHANGED <<submits, assigned, own_pairs, foreign>>

\* c.prompt = text: the caller supplies the current prompt fragment.
AssignPrompt(c, text) ==
    /\ composers[c].constructed
    /\ composers' = [composers EXCEPT ![c].prompt = StrV(text)]
    /\ old_heap' = heap
    /\ assigned' = assigned \cup {c}
    /\ last' = [NoCall EXCEPT !.op = "prompt=", !.self = c, !.arg = StrV(text)]
    /\ UNCHANGED <<heap, openai_api_key, submits, order, at_construction, own_pairs, foreign>>

\* c.generate_prompt()
GeneratePrompt(c) ==
    /\ composers[c].constructed
    /\ LET r == generate_prompt(composers[c], heap)
       IN /\ composers' = [composers EXCEPT ![c] = r.self]
          /\ last' = [NoCall EXCEPT !.op = "generate_prompt", !.self = c,
                                    !.result = r.result, !.formatter = r.formatter]
    /\ old_heap' = heap
    /\ UNCHANGED <<heap, openai_api_key, submits, order, at_construction, assigned,
                   own_pairs, foreign>>

\* c.get_response(prompt), the endpoint behaving as api
GetResponse(c, prompt, api) ==
    /\ composers[c].constructed
    /\ submits < MaxSubmits
    /\ LET r == get_response(composers[c], Transcript(c), prompt, api)
       IN /\ composers' = [composers EXCEPT ![c] = r.self]
          /\ heap' = [heap EXCEPT ![composers[c].prompt_history] = r.history]
          /\ last' = [NoCall EXCEPT !.op = "get_response", !.self = c, !.arg = prompt,
                                    !.result = r.result, !.api = api, !.calls = r.calls,
                                    !.used_key = openai_api_key]
          /\ own_pairs' = [own_pairs EXCEPT ![c] =
                              IF r.result.kind = "return"
                              THEN @ \o <<UserLine(prompt), SystemLine(r.result.value.text)>>
                              ELSE @]
    /\ old_heap' = heap
    /\ submits' = submits + 1
    /\ foreign' = [d \in Composers |->
                      IF d # c /\ composers[d].constructed THEN foreign[d] + 1 ELSE foreign[d]]
    /\ UNCHANGED <<openai_api_key, order, at_construction, assigned>>

\* What a caller passes to get_response: a prompt fragment, or what the
\* preceding generate_prompt returned.
SubmitArgs(Ts) ==
    {StrV(t) : t \in Ts}
        \cup (IF last.op = "generate_prompt" /\ last.result.kind = "return"
              THEN {last.result.value} ELSE {})

\* The calls a caller can make, over the given composers, strategy values,
\* keys, prompt fragments and endpoint behaviours.
Calls(Cs, Ss, Ks, Ts, Apis) ==
    \/ \E c \in Cs, s \in Ss, k \in Ks, h \in {NoneV, ListV(CallerHistory)} :
          Construct(c, s, k, h)
    \/ \E c \in Cs, t \in Ts : AssignPrompt(c, t)
    \/ \E c \in Cs : GeneratePrompt(c)
    \/ \E c \in Cs, p \in SubmitArgs(Ts), api \in Apis : GetResponse(c, p, api)

\* One composer, every strategy value, every endpoint behaviour.
Next == Calls({"a"}, StrategyValues, Keys, PromptTexts, ApiOutcomes)

Spec == Init /\ [][Next]_vars

\* Two composers that may be constructed from the same supplied history,
\* with different keys.
NextShared ==
    Calls(Composers, {CHAIN_OF_THOUGHT}, Keys, {<<"Q">>},
          {ApiRaise("APIConnectionError"), ApiResponse(<<>>), ApiResponse(<<<<" ", "B", "\n">>>>)})

SpecShared == Init /\ [][NextShared]_vars

\* =============================================================== claims
IsPrefix(s, t) == Len(s) <= Len(t) /\ SubSeq(t, 1, Len(s)) = s

Constructed == {c \in Composers : composers[c].constructed}

Returned(op) == last.op = op /\ last.result.kind = "return"
Raised(op) == last.op = op /\ last.result.kind = "raise"

\* Every line of T, in order, each followed by a newline.
RECURSIVE EachThenNewline(_)
EachThenNewline(T) == IF T = <<>> THEN <<>> ELSE T[1] \o NL \o EachThenNewline(Tail(T))

\* The lines of T, in order, with a newline between consecutive lines.
JoinedByNewlines(T) ==
    IF T = <<>> THEN <<>> ELSE EachThenNewline(SubSeq(T, 1, Len(T) - 1)) \o T[Len(T)]

\* C1: when get_response(Q) returns A, the transcript is the transcript
\* before the call followed by exactly two entries, the user-tagged line
\* with Q and then the system-tagged line with A; the earlier entries
\* keep their values and positions.
C1_SubmitAppendsPair ==
    (Returned("get_response") /\ last.arg.kind = "str") =>
        LET T == OldTranscript(last.self)
            T2 == Transcript(last.self)
        IN /\ Len(T2) = Len(T) + 2
           /\ \A i \in 1..Len(T) : T2[i] = T[i]
           /\ T2[Len(T) + 1] = UserTag \o last.arg.text
           /\ T2[Len(T) + 2] = SystemTag \o last.result.value.text

C1_Witness ==
    /\ Returned("get_response")
    /\ last.arg = StrV(<<"Q">>)
    /\ last.result.value = StrV(<<"B">>)
    /\ Len(OldTranscript(last.self)) >= 2

\* C2 as stated: with the in-context strategy and a text as current
\* prompt, generate_prompt returns the transcript lines joined by
\* newlines, followed by a newline and the current prompt.
C2_Original ==
    (/\ last.op = "generate_prompt"
     /\ composers[last.self].strategy = IN_CONTEXT
     /\ composers[last.self].prompt.kind = "str") =>
        last.result = Return(StrV(JoinedByNewlines(Transcript(last.self)) \o NL
                                    \o composers[last.self].prompt.text))

\* C2 amended: with the in-context strategy and a text as current prompt,
\* generate_prompt returns every transcript line in its original order,
\* each followed by a newline, and then the current prompt; for an empty
\* transcript that is the current prompt alone, with no newline before it.
C2_InContextJoin ==
    (/\ last.op = "generate_prompt"
     /\ composers[last.self].strategy = IN_CONTEXT
     /\ composers[last.self].prompt.kind = "str") =>
        last.result = Return(StrV(EachThenNewline(Transcript(last.self))
                                    \o composers[last.self].prompt.text))

C2_Witness ==
    /\ Returned("generate_prompt")
    /\ composers[last.self].strategy = IN_CONTEXT
    /\ composers[last.self].prompt = StrV(<<"R", " ">>)
    /\ Len(Transcript(last.self)) >= 2

LetsThinkStepByStep ==
    <<"L", "e", "t", "'", "s", " ", "t", "h", "i", "n", "k", " ", "s", "t", "e", "p", " ",
      "b", "y", " ", "s", "t", "e", "p", ".">>

ThreeExpertsTemplate ==
    <<
      "I", "m", "a", "g", "i", "n", "e", " ", "t", "h", "r", "e", "e", " ", "d", "i", "f",
      "f", "e", "r", "e", "n", "t", " ", "e", "x", "p", "e", "r", "t", "s", " ", "a", "r",
      "e", " ", "a", "n", "s", "w", "e", "r", "i", "n", "g", " ", "t", "h", "i", "s", " ",
      "q", "u", "e", "s", "t", "i", "o", "n", ".", "\n", "A", "l", "l", " ", "e", "x", "p",
      "e", "r", "t", "s", " ", "w", "i", "l", "l", " ", "w", "r", "i", "t", "e", " ", "d",
      "o", "w", "n", " ", "o", "n", "e", " ", "s", "t", "e", "p", " ", "o", "f", " ", "t",
      "h", "e", "i", "r", " ", "t", "h", "i", "n", "k", "i", "n", "g", ",", "\n", "t", "h",
      "e", "n", " ", "s", "h", "a", "r", "e", " ", "i", "t", " ", "w", "i", "t", "h", " ",
      "t", "h", "e", " ", "g", "r", "o", "u", "p", ".", "\n", "A", "f", "t", "e", "r", " ",
      "t", "h", "a", "t", ",", " ", "a", "l", "l", " ", "e", "x", "p", "e", "r", "t", "s",
      " ", "w", "i", "l", "l", " ", "p", "r", "o", "c", "e", "e", "d", " ", "t", "o", " ",
      "t", "h", "e", " ", "n", "e", "x", "t", " ", "s", "t", "e", "p", ",", " ", "a", "n",
      "d", " ", "s", "o", " ", "o", "n", ".", "\n", "I", "f", " ", "a", "n", "y", " ", "e",
      "x", "p", "e", "r", "t", " ", "r", "e", "a", "l", "i", "z", "e", "s", " ", "t", "h",
      "e", "y", "'", "r", "e", " ", "w", "r", "o", "n", "g", " ", "a", "t", " ", "a", "n",
      "y", " ", "p", "o", "i", "n", "t", ",", " ", "t", "h", "e", "y", " ", "w", "i", "l",
      "l", " ", "l", "e", "a", "v", "e", ".", "\n", "T", "h", "e", " ", "q", "u", "e", "s",
      "t", "i", "o", "n", " ", "i", "s", ":", " "
    >>

C5_FailureLeavesTranscript ==
    (last.op = "get_response" /\ (last.api.kind = "raise" \/ last.api.choices = <<>>)) =>
        /\ last.result.kind = "raise"
        /\ last.api.kind = "raise" => last.result.exc = last.api.exc
        /\ last.calls = 1
        /\ heap = old_heap
        /\ Transcript(last.self) = OldTranscript(last.self)

C5_Witness ==
    /\ Raised("get_response")
    /\ last.result.exc = "IndexError"
    /\ Len(Transcript(last.self)) >= 2
    /\ own_pairs[last.self] # <<>>

C7_Original ==
    last.op = "get_response" =>
        /\ \A d \in Constructed \ {last.self} : Transcript(d) = OldTranscript(d)
        /\ heap[CallerHistory] = old_heap[CallerHistory]

\* C8: the strategy and the strategy mapping of a composer are the ones its
\* constructor set, and generate_prompt uses the formatter that mapping
\* gives for that strategy.
C8_StrategyFixed ==
    /\ \A c \in Constructed :
          /\ composers[c].strategy = at_construction[c].self.strategy
          /\ composers[c].strategies = at_construction[c].self.strategies
    /\ last.op = "generate_prompt" =>
          LET s0 == at_construction[last.self].self.strategy
              m0 == at_construction[last.self].self.strategies
          IN last.formatter = IF s0 \in DOMAIN m0 THEN m0[s0] ELSE "None"

C8_Witness ==
    /\ last.op = "generate_prompt"
    /\ last.formatter = "None"
    /\ submits >= 1
    /\ \E c \in Constructed : c = last.self /\ own_pairs[c] # <<>>

\* C9: once a composer exists, openai.api_key is the key given to the most
\* recently constructed composer, in every state that generate_prompt and
\* get_response reach, and it is the key get_response calls the endpoint
\* with.
C9_CredentialIsLatestKey ==
    /\ order # <<>> => openai_api_key = at_construction[order[Len(order)]].self.api_key
    /\ last.op = "get_response" => last.used_key = openai_api_key

C9_Witness ==
    /\ last.op = "get_response"
    /\ Len(order) = 2
    /\ last.self = order[1]
    /\ composers[last.self].api_key # last.used_key

====
